---- MODULE Spec2Model ----
(***************************************************************************)
(* A model of the topic trie of trie.go: a tree of nodes keyed by path     *)
(* segment, with Insert, Retrieve, Match (wildcard traversal with an       *)
(* explicit stack) and Delete (with upward pruning).                       *)
(*                                                                         *)
(* A Go string is a sequence of one-character strings, so that splitting   *)
(* a key and rebuilding a key by concatenation are computed, not assumed.  *)
(* A node is identified by the sequence of segments leading to it from the *)
(* root (children maps are keyed by segment, so this is exact); the tree   *)
(* is the function from the existing nodes to their stored value.          *)
(***************************************************************************)
EXTENDS Naturals, Sequences, FiniteSets, Bags, TLC

\* ---------------------------------------------------------------- bounds
MaxKeyLen == 3
MaxSize == 3

\* The characters keys are written with: one ordinary letter and the two
\* wildcard tokens of the tests (plus the separator, when there is one).
Letters == {"a", "+", "#"}

\* The values callers store (non-nil), and Go's nil.
Values == {"v1", "v2"}
Nil == "nil"

\* All strings of at most n characters of the set chars.
Strings(chars, n) == UNION {[1..m -> chars] : m \in 0..n}

\* ------------------------------------------------------------- strings
\* strings.Index: the first position where sep occurs in s, 0 when none.
Index(s, sep) ==
  LET hits == {i \in 1..(Len(s) + 1 - Len(sep)) : SubSeq(s, i, i + Len(sep) - 1) = sep}
  IN IF hits = {} THEN 0 ELSE CHOOSE i \in hits : \A j \in hits : i <= j

\* strings.Split(s, sep): with the empty separator, one segment per
\* character (none for the empty string); otherwise the pieces between the
\* occurrences of sep (one empty piece for the empty string).
RECURSIVE genSplit(_, _)
genSplit(s, sep) ==
  LET i == Index(s, sep)
  IN IF i = 0 THEN <<s>>
     ELSE <<SubSeq(s, 1, i - 1)>> \o genSplit(SubSeq(s, i + Len(sep), Len(s)), sep)

Split(s, sep) ==
  IF sep = <<>> THEN [i \in 1..Len(s) |-> <<s[i]>>] ELSE genSplit(s, sep)

\* ------------------------------------------------------- configuration
\* New(options...): the separator defaults to the empty string and each
\* wildcard is enabled only by its option.
NewTrie(sWild, mWild, sep) ==
  [singleWild |-> IF sWild = Nil THEN <<>> ELSE sWild,
   isSWild    |-> sWild # Nil,
   multiWild  |-> IF mWild = Nil THEN <<>> ELSE mWild,
   isMWild    |-> mWild # Nil,
   separator  |-> sep]

\* The constructions of the tests: New(), New(+, #), New(+, #, "/").
Configs ==
  {NewTrie(Nil, Nil, <<>>),
   NewTrie(<<"+">>, <<"#">>, <<>>),
   NewTrie(<<"+">>, <<"#">>, <<"/">>)}

\* --------------------------------------------------------------- nodes
\* The empty tree: a root with no children and no value.
EmptyTree == (<<>> :> Nil)

\* node.children as the set of segments naming a child of node p.
Children(t, p) == {q[Len(q)] : q \in {r \in DOMAIN t : Len(r) = Len(p) + 1 /\ SubSeq(r, 1, Len(p)) = p}}

\* node.children[part] = &Node{children: make(map[string]*Node)}
AddChild(t, p, part) ==
  LET np == Append(p, part)
  IN [q \in DOMAIN t \cup {np} |-> IF q = np THEN Nil ELSE t[q]]

\* delete(parent.children, part): the child and all below it leave the tree.
RemoveChild(t, p, part) ==
  LET np == Append(p, part)
      keep == {q \in DOMAIN t : ~(Len(q) >= Len(np) /\ SubSeq(q, 1, Len(np)) = np)}
  IN [q \in keep |-> t[q]]

\* The characters held as child-map keys in the whole tree (an empty
\* segment counts as one): what the model caps.
RECURSIVE SumLen(_)
SumLen(S) ==
  IF S = {} THEN 0
  ELSE LET p == CHOOSE p \in S : TRUE
           n == Len(p[Len(p)])
       IN (IF n = 0 THEN 1 ELSE n) + SumLen(S \ {p})

TreeSize(t) == SumLen(DOMAIN t \ {<<>>})

\* The keys and patterns callers pass to a trie configured as c.
Keys(c) == Strings(Letters \cup {c.separator[j] : j \in 1..Len(c.separator)}, MaxKeyLen)

\* -------------------------------------------------------------- Insert
\* Insert with a terminal node that keeps a value it already holds.
RECURSIVE InsertLoopKeepsOld(_, _, _, _, _, _)
InsertLoopKeepsOld(c, t, parts, i, p, value) ==
  IF i = Len(parts)
  THEN [tree |-> IF t[p] = Nil THEN [t EXCEPT ![p] = value] ELSE t, ok |-> TRUE]
  ELSE LET part == parts[i + 1]
       IN IF c.isMWild /\ part = c.multiWild /\ i # Len(parts) - 1
          THEN [tree |-> t, ok |-> FALSE]
          ELSE LET t2 == IF part \in Children(t, p) THEN t ELSE AddChild(t, p, part)
               IN InsertLoopKeepsOld(c, t2, parts, i + 1, Append(p, part), value)

\* Insert rejecting the multi-level wildcard at every position, the last
\* one included.
RECURSIVE InsertLoopAnyPosition(_, _, _, _, _, _)
InsertLoopAnyPosition(c, t, parts, i, p, value) ==
  IF i = Len(parts) THEN [tree |-> [t EXCEPT ![p] = value], ok |-> TRUE]
  ELSE LET part == parts[i + 1]
       IN IF c.isMWild /\ part = c.multiWild
          THEN [tree |-> t, ok |-> FALSE]
          ELSE LET t2 == IF part \in Children(t, p) THEN t ELSE AddChild(t, p, part)
               IN InsertLoopAnyPosition(c, t2, parts, i + 1, Append(p, part), value)

\* Insert without the test of the multi-level wildcard's position.
RECURSIVE InsertLoopNoPositionTest(_, _, _, _, _, _)
InsertLoopNoPositionTest(c, t, parts, i, p, value) ==
  IF i = Len(parts) THEN [tree |-> [t EXCEPT ![p] = value], ok |-> TRUE]
  ELSE LET part == parts[i + 1]
           t2 == IF part \in Children(t, p) THEN t ELSE AddChild(t, p, part)
       IN InsertLoopNoPositionTest(c, t2, parts, i + 1, Append(p, part), value)

\* The loop of Insert from index i (0-based, as in the source) at node p.
RECURSIVE InsertLoop(_, _, _, _, _, _)
InsertLoop(c, t, parts, i, p, value) ==
  IF i = Len(parts) THEN [tree |-> [t EXCEPT ![p] = value], ok |-> TRUE]
  ELSE LET part == parts[i + 1]
       IN IF c.isMWild /\ part = c.multiWild /\ i # Len(parts) - 1
          THEN [tree |-> t, ok |-> FALSE]
          ELSE LET t2 == IF part \in Children(t, p) THEN t ELSE AddChild(t, p, part)
               IN InsertLoop(c, t2, parts, i + 1, Append(p, part), value)

InsertOp(c, t, key, value) == InsertLoop(c, t, Split(key, c.separator), 0, <<>>, value)

\* ------------------------------------------------------------- Retrieve
RECURSIVE RetrieveLoop(_, _, _, _, _)
RetrieveLoop(c, t, parts, i, p) ==
  IF i = Len(parts) THEN [val |-> t[p], err |-> FALSE]
  ELSE LET part == parts[i + 1]
       IN IF c.isMWild /\ part = c.multiWild /\ i # Len(parts) - 1
          THEN [val |-> Nil, err |-> TRUE]
          ELSE IF part \notin Children(t, p)
               THEN [val |-> Nil, err |-> FALSE]
               ELSE RetrieveLoop(c, t, parts, i + 1, Append(p, part))

RetrieveOp(c, t, key) == RetrieveLoop(c, t, Split(key, c.separator), 0, <<>>)

\* --------------------------------------------------------------- Delete
\* Pruning that tests only the value of a node, not its children.
RECURSIVE PruneLoopIgnoresChildren(_, _)
PruneLoopIgnoresChildren(t, p) ==
  IF Len(p) = 0 THEN t
  ELSE IF t[p] # Nil THEN t
       ELSE PruneLoopIgnoresChildren(RemoveChild(t, SubSeq(p, 1, Len(p) - 1), p[Len(p)]),
                                     SubSeq(p, 1, Len(p) - 1))

\* The pruning loop of Delete at node p (the node is the path, so parts[i]
\* is its last segment and the parent its front).
RECURSIVE PruneLoop(_, _)
PruneLoop(t, p) ==
  IF Len(p) = 0 THEN t
  ELSE IF t[p] # Nil \/ Children(t, p) # {} THEN t
       ELSE PruneLoop(RemoveChild(t, SubSeq(p, 1, Len(p) - 1), p[Len(p)]), SubSeq(p, 1, Len(p) - 1))

\* The downward walk of Delete from index i at node p: the node reached,
\* or found = FALSE at the first missing child. (parentStack holds the
\* nodes on the way, which here are the prefixes of the path.)
RECURSIVE DeleteWalk(_, _, _, _)
DeleteWalk(t, parts, i, p) ==
  IF i = Len(parts) THEN [found |-> TRUE, node |-> p]
  ELSE IF parts[i + 1] \notin Children(t, p) THEN [found |-> FALSE, node |-> p]
       ELSE DeleteWalk(t, parts, i + 1, Append(p, parts[i + 1]))

\* Delete without the test that the node reached holds a value.
DeleteOpNoValueTest(c, t, key) ==
  LET w == DeleteWalk(t, Split(key, c.separator), 0, <<>>)
  IN IF ~w.found THEN [tree |-> t, ok |-> FALSE]
     ELSE [tree |-> PruneLoop([t EXCEPT ![w.node] = Nil], w.node), ok |-> TRUE]

DeleteOp(c, t, key) ==
  LET w == DeleteWalk(t, Split(key, c.separator), 0, <<>>)
  IN IF ~w.found THEN [tree |-> t, ok |-> FALSE]
     ELSE IF t[w.node] = Nil THEN [tree |-> t, ok |-> FALSE]
          ELSE [tree |-> PruneLoop([t EXCEPT ![w.node] = Nil], w.node), ok |-> TRUE]

\* ---------------------------------------------------------------- Match
\* A set as a sequence, in some order: the order of a range over a Go map.
RECURSIVE SetToSeq(_)
SetToSeq(S) ==
  IF S = {} THEN <<>>
  ELSE LET x == CHOOSE x \in S : TRUE IN <<x>> \o SetToSeq(S \ {x})

KeyValue(key, value) == [Key |-> key, Value |-> value]

stackNode(node, i, keypart) == [node |-> node, i |-> i, keypart |-> keypart]

\* collectAll: the loop over its stack; matches is a bag, since the order
\* of the result follows the map order and nothing is deduplicated; frames
\* counts the iterations of the loop (the frames popped).
RECURSIVE collectLoop(_, _, _, _)
collectLoop(t, stack, matches, separator) ==
  IF stack = <<>> THEN [matches |-> matches, frames |-> 0]
  ELSE LET current == stack[Len(stack)]
           rest == SubSeq(stack, 1, Len(stack) - 1)
           m2 == IF t[current.node] # Nil
                 THEN matches (+) SetToBag({KeyValue(current.keypart, t[current.node])})
                 ELSE matches
           ks == SetToSeq(Children(t, current.node))
           pushed == [j \in 1..Len(ks) |->
                        stackNode(Append(current.node, ks[j]), 0,
                                  current.keypart \o ks[j] \o separator)]
       IN [collectLoop(t, rest \o pushed, m2, separator) EXCEPT !.frames = @ + 1]

\* collectAll that starts from the children of the start node, leaving the
\* start node itself out.
collectAllBelow(t, startNode, startKeypart, matches, separator) ==
  LET ks == SetToSeq(Children(t, startNode))
  IN collectLoop(t, [j \in 1..Len(ks) |->
                       stackNode(Append(startNode, ks[j]), 0,
                                 startKeypart \o ks[j] \o separator)],
                 matches, separator)

collectAll(t, startNode, startKeypart, matches, separator) ==
  collectLoop(t, <<stackNode(startNode, 0, startKeypart)>>, matches, separator)

\* One child reached by a literal or stored single-wildcard step of Match:
\* collected at the last pattern segment when it has a value, pushed with
\* the next index otherwise.
LiteralStep(c, t, parts, fr, part) ==
  LET child == Append(fr.node, part)
  IN IF part \notin Children(t, fr.node) THEN [push |-> <<>>, found |-> EmptyBag]
     ELSE IF fr.i = Len(parts) - 1 /\ t[child] # Nil
          THEN [push |-> <<>>, found |-> SetToBag({KeyValue(fr.keypart \o part, t[child])})]
          ELSE [push |-> <<stackNode(child, fr.i + 1, fr.keypart \o part \o c.separator)>>,
                found |-> EmptyBag]

\* The loop of Match with the multi-level wildcard branch falling through
\* to the literal step (an if in place of the else-if chain).
RECURSIVE MatchLoopFallsThrough(_, _, _, _, _)
MatchLoopFallsThrough(c, t, parts, stack, matches) ==
  IF stack = <<>>
  THEN [panic |-> FALSE, matches |-> matches, frames |-> 0, collected |-> 0]
  ELSE LET current == stack[Len(stack)]
           rest == SubSeq(stack, 1, Len(stack) - 1)
           node == current.node
           i == current.i
           keypart == current.keypart
       IN IF i >= Len(parts)
          THEN [panic |-> TRUE, matches |-> EmptyBag, frames |-> 1, collected |-> 0]
          ELSE IF c.isMWild /\ parts[i + 1] = c.multiWild
          THEN LET exact == LiteralStep(c, t, parts, current, parts[i + 1])
                   single == IF c.isSWild
                             THEN LiteralStep(c, t, parts, current, c.singleWild)
                             ELSE [push |-> <<>>, found |-> EmptyBag]
                   all == collectAll(t, node, keypart, matches, c.separator)
               IN [MatchLoopFallsThrough(c, t, parts, rest \o exact.push \o single.push,
                                         all.matches (+) exact.found (+) single.found)
                     EXCEPT !.frames = @ + 1, !.collected = @ + all.frames]
          ELSE IF c.isSWild /\ parts[i + 1] = c.singleWild
          THEN LET kids == Children(t, node)
                   hit == IF i = Len(parts) - 1
                          THEN {k \in kids : t[Append(node, k)] # Nil}
                          ELSE {}
                   ks == IF i < Len(parts) - 1 THEN SetToSeq(kids) ELSE <<>>
                   pushed == [j \in 1..Len(ks) |->
                                stackNode(Append(node, ks[j]), i + 1,
                                          keypart \o ks[j] \o c.separator)]
               IN [MatchLoopFallsThrough(c, t, parts, rest \o pushed,
                             matches (+) SetToBag({KeyValue(keypart \o k, t[Append(node, k)]) : k \in hit}))
                     EXCEPT !.frames = @ + 1]
          ELSE LET exact == LiteralStep(c, t, parts, current, parts[i + 1])
                   single == IF c.isSWild
                             THEN LiteralStep(c, t, parts, current, c.singleWild)
                             ELSE [push |-> <<>>, found |-> EmptyBag]
                   multi == IF c.isMWild /\ c.multiWild \in Children(t, node)
                            THEN SetToBag({KeyValue(keypart \o c.multiWild,
                                                    t[Append(node, c.multiWild)])})
                            ELSE EmptyBag
               IN [MatchLoopFallsThrough(c, t, parts, rest \o exact.push \o single.push,
                             matches (+) exact.found (+) single.found (+) multi)
                     EXCEPT !.frames = @ + 1]

\* The loop of Match over its stack. parts[i] with i out of range is Go's
\* run-time panic (index out of range): the call returns nothing. frames
\* counts the frames the loop pops, collected those that collectAll pops.
RECURSIVE MatchLoop(_, _, _, _, _)
MatchLoop(c, t, parts, stack, matches) ==
  IF stack = <<>>
  THEN [panic |-> FALSE, matches |-> matches, frames |-> 0, collected |-> 0]
  ELSE LET current == stack[Len(stack)]
           rest == SubSeq(stack, 1, Len(stack) - 1)
           node == current.node
           i == current.i
           keypart == current.keypart
       IN IF i >= Len(parts)
          THEN [panic |-> TRUE, matches |-> EmptyBag, frames |-> 1, collected |-> 0]
          ELSE IF c.isMWild /\ parts[i + 1] = c.multiWild
          THEN LET all == collectAll(t, node, keypart, matches, c.separator)
               IN [MatchLoop(c, t, parts, rest, all.matches)
                     EXCEPT !.frames = @ + 1, !.collected = @ + all.frames]
          ELSE IF c.isSWild /\ parts[i + 1] = c.singleWild
          THEN LET kids == Children(t, node)
                   hit == IF i = Len(parts) - 1
                          THEN {k \in kids : t[Append(node, k)] # Nil}
                          ELSE {}
                   ks == IF i < Len(parts) - 1 THEN SetToSeq(kids) ELSE <<>>
                   pushed == [j \in 1..Len(ks) |->
                                stackNode(Append(node, ks[j]), i + 1,
                                          keypart \o ks[j] \o c.separator)]
               IN [MatchLoop(c, t, parts, rest \o pushed,
                             matches (+) SetToBag({KeyValue(keypart \o k, t[Append(node, k)]) : k \in hit}))
                     EXCEPT !.frames = @ + 1]
          ELSE LET exact == LiteralStep(c, t, parts, current, parts[i + 1])
                   single == IF c.isSWild
                             THEN LiteralStep(c, t, parts, current, c.singleWild)
                             ELSE [push |-> <<>>, found |-> EmptyBag]
                   multi == IF c.isMWild /\ c.multiWild \in Children(t, node)
                            THEN SetToBag({KeyValue(keypart \o c.multiWild,
                                                    t[Append(node, c.multiWild)])})
                            ELSE EmptyBag
               IN [MatchLoop(c, t, parts, rest \o exact.push \o single.push,
                             matches (+) exact.found (+) single.found (+) multi)
                     EXCEPT !.frames = @ + 1]

MatchOp(c, t, key) ==
  MatchLoop(c, t, Split(key, c.separator), <<stackNode(<<>>, 0, <<>>)>>, EmptyBag)

\* ---------------------------------------------------------------- state
\* cfg: the trie's configuration, fixed by New; root: the tree of nodes;
\* lastOp: the operation called last; entries: the history of the calls as
\* a plain map, each key with the value of its latest accepted Insert,
\* dropped by a Delete of it that returned true (not part of the trie).
VARIABLES cfg, root, lastOp, entries
vars == <<cfg, root, lastOp, entries>>

\* The map m with key bound to value.
Put(m, key, value) == [k \in DOMAIN m \cup {key} |-> IF k = key THEN value ELSE m[k]]

\* The map m without key.
Drop(m, key) == [k \in DOMAIN m \ {key} |-> m[k]]

Init ==
  /\ cfg \in Configs
  /\ root = EmptyTree
  /\ lastOp = "New"
  /\ entries = <<>>

Insert(key, value) ==
  LET r == InsertOp(cfg, root, key, value)
  IN /\ TreeSize(r.tree) <= MaxSize
     /\ root' = r.tree
     /\ lastOp' = "Insert"
     /\ entries' = IF r.ok THEN Put(entries, key, value) ELSE entries
     /\ UNCHANGED cfg

\* Retrieve and Match assign to nothing the trie holds: the call returns
\* (Retrieve: a value or nil; Match: its result, or it panics).
Retrieve(key) ==
  /\ RetrieveOp(cfg, root, key).val \in Values \cup {Nil}
  /\ lastOp' = "Retrieve"
  /\ UNCHANGED <<cfg, root, entries>>

\* Match whose probe for the child named by the single-level token creates
\* that child under the root when it is missing.
MatchCreatesProbedChild(key) ==
  /\ MatchOp(cfg, root, key).panic \in BOOLEAN
  /\ root' = IF cfg.isSWild /\ cfg.singleWild \notin Children(root, <<>>)
             THEN AddChild(root, <<>>, cfg.singleWild)
             ELSE root
  /\ lastOp' = "Match"
  /\ UNCHANGED <<cfg, entries>>

Match(key) ==
  /\ MatchOp(cfg, root, key).panic \in BOOLEAN
  /\ lastOp' = "Match"
  /\ UNCHANGED <<cfg, root, entries>>

Delete(key) ==
  LET r == DeleteOp(cfg, root, key)
  IN /\ root' = r.tree
     /\ lastOp' = "Delete"
     /\ entries' = IF r.ok THEN Drop(entries, key) ELSE entries
     /\ UNCHANGED cfg

Next ==
  \/ \E key \in Keys(cfg), value \in Values : Insert(key, value)
  \/ \E key \in Keys(cfg) : Retrieve(key)
  \/ \E key \in Keys(cfg) : Match(key)
  \/ \E key \in Keys(cfg) : Delete(key)

Spec == Init /\ [][Next]_vars

\* =============================================================== claims
\* The segments of key under the configured separator.
Parts(key) == Split(key, cfg.separator)

\* The multi-level wildcard is enabled and is a non-final segment of key.
Misplaced(key) ==
  /\ cfg.isMWild
  /\ \E j \in 1..(Len(Parts(key)) - 1) : Parts(key)[j] = cfg.multiWild

\* The node at the end of key's segment path exists and holds a value.
Stored(t, key) == Parts(key) \in DOMAIN t /\ t[Parts(key)] # Nil

\* A node other than the root with neither a value nor a child.
EmptyNodes(t) == {p \in DOMAIN t \ {<<>>} : t[p] = Nil /\ Children(t, p) = {}}

\* The segments joined by the separator: the key whose split is parts
\* (for the root under the empty separator, the empty key).
RECURSIVE Join(_, _)
Join(parts, sep) ==
  IF parts = <<>> THEN <<>>
  ELSE IF Len(parts) = 1 THEN parts[1]
       ELSE parts[1] \o sep \o Join(Tail(parts), sep)

\* C1: in every reachable state, an Insert(key, v) that is accepted
\* returns true, and a Retrieve(key) right after it returns (v, no error);
\* the empty key and the longest keys included.
C1_RoundTrip ==
  \A key \in Keys(cfg), v \in Values :
    LET r == InsertOp(cfg, root, key, v)
    IN ~Misplaced(key) =>
         /\ r.ok
         /\ RetrieveOp(cfg, r.tree, key) = [val |-> v, err |-> FALSE]

\* An Insert has just stored a value under the empty key next to a key of
\* the greatest length, and overwriting either round-trips.
C1_Witness ==
  /\ lastOp = "Insert"
  /\ cfg.separator = <<>>
  /\ Stored(root, <<>>)
  /\ \E key \in Keys(cfg) :
       /\ Len(key) = MaxKeyLen
       /\ Stored(root, key)
       /\ \E v \in Values \ {root[Parts(key)]} :
            RetrieveOp(cfg, InsertOp(cfg, root, key, v).tree, key).val = v

\* C2: an Insert that is rejected leaves the tree as it was.
C2_RejectedInsertNoMutation ==
  \A key \in Keys(cfg), v \in Values :
    LET r == InsertOp(cfg, root, key, v)
    IN ~r.ok => r.tree = root

\* C3: Match returns for every pattern in every reachable state (no frame
\* is popped with an index past the last pattern segment).
C3_MatchNeverErrors ==
  \A key \in Keys(cfg) : ~MatchOp(cfg, root, key).panic

\* C4: every KeyValue Match returns has as Key a key that is stored and as
\* Value what Retrieve(Key) returns.
C4_MatchResultsAreStored ==
  \A key \in Keys(cfg) :
    LET m == MatchOp(cfg, root, key)
    IN ~m.panic =>
         \A kv \in BagToSet(m.matches) :
           /\ Stored(root, kv.Key)
           /\ RetrieveOp(cfg, root, kv.Key) = [val |-> kv.Value, err |-> FALSE]

\* What holds instead: with the empty separator every result is a stored
\* entry (the keys collectAll rebuilds end in the separator).
MatchResultsAreStoredEmptySeparator ==
  cfg.separator = <<>> => C4_MatchResultsAreStored

\* A pattern none of whose segments is an enabled wildcard token.
Literal(key) ==
  \A j \in 1..Len(Parts(key)) :
    /\ ~(cfg.isSWild /\ Parts(key)[j] = cfg.singleWild)
    /\ ~(cfg.isMWild /\ Parts(key)[j] = cfg.multiWild)

\* The stored segment s, read as a filter, admits the query segment q.
SegmentCovers(s, q) == s = q \/ (cfg.isSWild /\ s = cfg.singleWild)

\* The stored path p, read as a filter, covers the query segments q.
Covers(p, q) ==
  \/ /\ Len(p) = Len(q)
     /\ \A j \in 1..Len(p) : SegmentCovers(p[j], q[j])
  \/ /\ cfg.isMWild
     /\ Len(p) \in 1..Len(q)
     /\ p[Len(p)] = cfg.multiWild
     /\ \A j \in 1..(Len(p) - 1) : SegmentCovers(p[j], q[j])

\* The entries of the tree that cover the query.
Covering(t, key) ==
  {KeyValue(Join(p, cfg.separator), t[p]) : p \in {q \in DOMAIN t : t[q] # Nil /\ Covers(q, Parts(key))}}

\* C5: for a pattern of literal segments, Match returns exactly the stored
\* entries that cover it.
C5_LiteralOverlapComplete ==
  \A key \in Keys(cfg) :
    LET m == MatchOp(cfg, root, key)
    IN Literal(key) => ~m.panic /\ m.matches = SetToBag(Covering(root, key))

\* What holds instead: whenever Match returns for a literal pattern, it
\* returns exactly the covering entries.
LiteralOverlapWhenMatchReturns ==
  \A key \in Keys(cfg) :
    LET m == MatchOp(cfg, root, key)
    IN Literal(key) /\ ~m.panic => m.matches = SetToBag(Covering(root, key))

\* C6: Retrieve returns the error for every key with the multi-level
\* wildcard in a non-final segment, whatever the tree holds.
C6_RetrieveRejectsMisplaced ==
  \A key \in Keys(cfg) : Misplaced(key) => RetrieveOp(cfg, root, key).err

\* C7: Insert fails exactly when the multi-level wildcard is enabled and
\* equals, as a whole segment, a non-final segment of the key.
C7_InsertFailsExactly ==
  \A key \in Keys(cfg), v \in Values :
    InsertOp(cfg, root, key, v).ok = ~Misplaced(key)

\* An Insert has stored a key with a non-final segment that contains the
\* multi-level token without being it, next to which a key with the token
\* as a non-final segment is rejected and one with it last is accepted.
C7_Witness ==
  /\ lastOp = "Insert"
  /\ cfg.isMWild
  /\ \E key \in Keys(cfg) :
       /\ Stored(root, key)
       /\ \E j \in 1..(Len(Parts(key)) - 1) :
            Parts(key)[j] # cfg.multiWild /\ Index(Parts(key)[j], cfg.multiWild) # 0
  /\ \E key \in Keys(cfg), v \in Values : ~InsertOp(cfg, root, key, v).ok
  /\ \E key \in Keys(cfg), v \in Values :
       /\ Parts(key) # <<>>
       /\ Parts(key)[Len(Parts(key))] = cfg.multiWild
       /\ InsertOp(cfg, root, key, v).ok

\* C8: after a Delete(key) that returns true, Retrieve(key) returns absent
\* and Retrieve of every other key returns what it returned before.
C8_DeleteFrame ==
  \A key \in Keys(cfg) :
    LET d == DeleteOp(cfg, root, key)
    IN d.ok =>
         /\ RetrieveOp(cfg, d.tree, key) = [val |-> Nil, err |-> FALSE]
         /\ \A k \in Keys(cfg) \ {key} :
              RetrieveOp(cfg, d.tree, k) = RetrieveOp(cfg, root, k)

\* What holds instead: the same, for the other keys that have no misplaced
\* multi-level wildcard.
DeleteFrameWellFormedKeys ==
  \A key \in Keys(cfg) :
    LET d == DeleteOp(cfg, root, key)
    IN d.ok =>
         /\ RetrieveOp(cfg, d.tree, key) = [val |-> Nil, err |-> FALSE]
         /\ \A k \in Keys(cfg) \ {key} :
              ~Misplaced(k) => RetrieveOp(cfg, d.tree, k) = RetrieveOp(cfg, root, k)

\* C9: Delete of a key that is not stored (no such path, or a node with no
\* value at its end) returns false and leaves the tree as it was.
C9_DeleteAbsentNoChange ==
  \A key \in Keys(cfg) :
    ~Stored(root, key) => DeleteOp(cfg, root, key) = [tree |-> root, ok |-> FALSE]

\* A Delete has run and left a tree in which one absent key has its whole
\* path present with no value at the end, and another has no path.
C9_Witness ==
  /\ lastOp = "Delete"
  /\ \E key \in Keys(cfg) :
       /\ Parts(key) \in DOMAIN root \ {<<>>}
       /\ root[Parts(key)] = Nil
       /\ ~DeleteOp(cfg, root, key).ok
  /\ \E key \in Keys(cfg) :
       /\ Parts(key) \notin DOMAIN root
       /\ ~DeleteOp(cfg, root, key).ok

\* C10: no node other than the root has neither a value nor a child.
C10_NoEmptyNodes == EmptyNodes(root) = {}

\* What holds instead: the same, while no Insert can be rejected.
NoEmptyNodesWithoutMultiWild == ~cfg.isMWild => C10_NoEmptyNodes

\* C11: the trie is the plain map of the calls made: a node holds a value
\* exactly when its path is the split of a key of the map, that value is
\* the key's latest inserted one, and Retrieve returns it without error
\* (nil for every other key); wildcard tokens are ordinary segments here.
C11_PlainMap ==
  /\ \A p \in DOMAIN root :
       root[p] # Nil <=> \E key \in DOMAIN entries : Parts(key) = p
  /\ \A key \in Keys(cfg) :
       LET r == RetrieveOp(cfg, root, key)
       IN IF key \in DOMAIN entries
          THEN r = [val |-> entries[key], err |-> FALSE]
          ELSE r.val = Nil

\* A Delete has run; a key with the single-level token as a segment is
\* held with one value, the key with a letter in its place with the other,
\* and a third key of the same shape is absent.
C11_Witness ==
  /\ lastOp = "Delete"
  /\ cfg.isSWild
  /\ \E k1 \in DOMAIN entries, k2 \in DOMAIN entries :
       /\ Len(k1) = Len(k2)
       /\ \E j \in 1..Len(k1) :
            /\ k1[j] = "+" /\ k2[j] = "a"
            /\ \A i \in 1..Len(k1) : i # j => k1[i] = k2[i]
       /\ entries[k1] # entries[k2]
       /\ RetrieveOp(cfg, root, k1).val = entries[k1]
       /\ RetrieveOp(cfg, root, k2).val = entries[k2]

\* C12: where a key is held with v1 (its Insert accepted), inserting it
\* again with v2 gives the same tree with v2 at the key's node (the same
\* nodes, one value for the key), Retrieve returns v2, and one Delete of
\* the key then returns true and leaves the key absent.
C12_Overwrite ==
  \A key \in DOMAIN entries : \A v2 \in Values :
    LET b == InsertOp(cfg, root, key, v2)
        d == DeleteOp(cfg, b.tree, key)
    IN /\ b.ok
       /\ DOMAIN b.tree = DOMAIN root
       /\ b.tree = [root EXCEPT ![Parts(key)] = v2]
       /\ RetrieveOp(cfg, b.tree, key) = [val |-> v2, err |-> FALSE]
       /\ d.ok
       /\ RetrieveOp(cfg, d.tree, key).val = Nil
       /\ Parts(key) \in DOMAIN d.tree => d.tree[Parts(key)] = Nil

\* An Insert has just overwritten: the map holds a key under v2 whose node
\* has children, so the Delete of it clears the value and keeps the node.
C12_Witness ==
  /\ lastOp = "Insert"
  /\ \E key \in DOMAIN entries :
       /\ entries[key] = "v2"
       /\ InsertOp(cfg, root, key, "v1").tree # root
       /\ Children(root, Parts(key)) # {}
       /\ Parts(key) \in DOMAIN DeleteOp(cfg, root, key).tree

\* The stored paths P/# (last segment the enabled multi-level token).
MultiStored(t) ==
  {p \in DOMAIN t : /\ cfg.isMWild /\ Len(p) > 0
                    /\ p[Len(p)] = cfg.multiWild /\ t[p] # Nil}

\* The segments of q begin with the segments of p.
IsPrefix(p, q) == Len(p) <= Len(q) /\ SubSeq(q, 1, Len(p)) = p

\* C13: an entry stored under P/# is returned by Match(q) for every literal
\* q whose segments are those of P followed by zero or more segments: by
\* q = P itself as well as by the longer ones.
C13_MultiStoredMatchesZeroOrMore ==
  \A p \in MultiStored(root) : \A key \in Keys(cfg) :
    (Literal(key) /\ IsPrefix(SubSeq(p, 1, Len(p) - 1), Parts(key))) =>
      LET m == MatchOp(cfg, root, key)
      IN /\ ~m.panic
         /\ \E kv \in BagToSet(m.matches) :
              kv.Value = root[p] /\ Parts(kv.Key) = p

\* What holds of P/# instead: Match(q) that returns includes the entry for
\* every literal q with at least one segment after those of P.
MultiStoredMatchesOneOrMore ==
  \A p \in MultiStored(root) : \A key \in Keys(cfg) :
    (/\ Literal(key)
     /\ IsPrefix(SubSeq(p, 1, Len(p) - 1), Parts(key))
     /\ Len(Parts(key)) >= Len(p)) =>
      LET m == MatchOp(cfg, root, key)
      IN ~m.panic =>
           \E kv \in BagToSet(m.matches) :
             kv.Value = root[p] /\ Parts(kv.Key) = p

\* The zero-segment case alone, where Match returns: P and P/# both stored,
\* the pattern is P.
MultiStoredMatchesZero ==
  \A p \in MultiStored(root) : \A key \in Keys(cfg) :
    (/\ Literal(key)
     /\ Parts(key) = SubSeq(p, 1, Len(p) - 1)
     /\ ~MatchOp(cfg, root, key).panic) =>
      \E kv \in BagToSet(MatchOp(cfg, root, key).matches) : Parts(kv.Key) = p

\* The pattern has the enabled multi-level token as a segment.
HasMulti(parts) == cfg.isMWild /\ \E j \in 1..Len(parts) : parts[j] = cfg.multiWild

\* The position of the first multi-level wildcard segment of the pattern.
FirstMulti(parts) ==
  CHOOSE j \in 1..Len(parts) :
    /\ parts[j] = cfg.multiWild
    /\ \A i \in 1..(j - 1) : parts[i] # cfg.multiWild

\* The node n is reached by the first Len(n) pattern segments: a pattern
\* wildcard takes any child, a literal the child of its name and the child
\* named by the single-level token.
Reaches(parts, n) ==
  \A i \in 1..Len(n) :
    \/ cfg.isSWild /\ parts[i] = cfg.singleWild
    \/ n[i] = parts[i]
    \/ cfg.isSWild /\ n[i] = cfg.singleWild

\* The node a returned Key names: the split of the Key, the separator that
\* collectAll writes after the last segment dropped.
NodeOf(key) ==
  LET sep == cfg.separator
      n == Len(key)
  IN IF /\ Len(sep) > 0 /\ n >= Len(sep)
        /\ SubSeq(key, n - Len(sep) + 1, n) = sep
     THEN Split(SubSeq(key, 1, n - Len(sep)), sep)
     ELSE Split(key, sep)

\* The nodes with a value in the subtrees of the nodes that the segments
\* before the pattern's multi-level wildcard reach, those nodes included.
Below(t, parts) ==
  LET j == FirstMulti(parts)
  IN {n \in DOMAIN t : /\ t[n] # Nil
                       /\ Len(n) >= j - 1
                       /\ Reaches(parts, SubSeq(n, 1, j - 1))}

\* The children named by the multi-level token that the literal steps
\* before the pattern's multi-level wildcard return on the way.
Aside(t, parts) ==
  LET j == FirstMulti(parts)
  IN {n \in DOMAIN t : /\ Len(n) \in 1..(j - 1)
                       /\ n[Len(n)] = cfg.multiWild
                       /\ ~(cfg.isSWild /\ parts[Len(n)] = cfg.singleWild)
                       /\ Reaches(parts, SubSeq(n, 1, Len(n) - 1))}

\* C14: a pattern with a multi-level wildcard segment returns, once each,
\* every node with a value in the subtree of each node its preceding
\* segments reach, that node included, at any depth; nothing else comes
\* from this step (the rest are the children the literal steps return on
\* the way); the segments after the wildcard play no part.
C14_MultiPatternCollectsSubtree ==
  \A key \in Keys(cfg) :
    HasMulti(Parts(key)) =>
      LET m == MatchOp(cfg, root, key)
          got == BagToSet(m.matches)
          want == Below(root, Parts(key)) \cup Aside(root, Parts(key))
      IN /\ ~m.panic
         /\ {<<NodeOf(kv.Key), kv.Value>> : kv \in got} = {<<n, root[n]>> : n \in want}
         /\ \A kv \in got : CopiesIn(kv, m.matches) = 1
         /\ Cardinality(got) = Cardinality(want)

\* A Match has run; a pattern P/# followed by a further segment reaches a
\* node P that holds a value and has a value two levels further down, both
\* returned.
C14_Witness ==
  /\ lastOp = "Match"
  /\ \E key \in Keys(cfg) :
       LET parts == Parts(key)
       IN /\ HasMulti(parts)
          /\ FirstMulti(parts) = 2
          /\ Len(parts) = 3
          /\ \E n \in Below(root, parts), d \in Below(root, parts) :
               /\ Len(n) = 1 /\ Len(d) = 3 /\ SubSeq(d, 1, 1) = n
               /\ \E kv \in BagToSet(MatchOp(cfg, root, key).matches) : NodeOf(kv.Key) = n
               /\ \E kv \in BagToSet(MatchOp(cfg, root, key).matches) : NodeOf(kv.Key) = d

\* The pattern has the enabled single-level token as a segment.
HasSingle(parts) == cfg.isSWild /\ \E j \in 1..Len(parts) : parts[j] = cfg.singleWild

\* The nodes with a value that have as many segments as the pattern and
\* agree with it at every literal position (a stored single-level token
\* agrees with any literal, as in the literal step).
Agreeing(t, parts) ==
  {n \in DOMAIN t : t[n] # Nil /\ Len(n) = Len(parts) /\ Reaches(parts, n)}

\* The same with agreement read as equality of the segments.
AgreeingEqual(t, parts) ==
  {n \in DOMAIN t : /\ t[n] # Nil /\ Len(n) = Len(parts)
                    /\ \A i \in 1..Len(n) : parts[i] = cfg.singleWild \/ n[i] = parts[i]}

\* No stored key has the multi-level token as a segment.
NoMultiStored(t) == \A n \in DOMAIN t : ~HasMulti(n)

\* C15: a pattern of n segments, single-level wildcards and literals, on a
\* trie with no multi-level wildcard stored returns exactly the stored
\* entries of n segments that agree with it at every literal position.
C15_SinglePatternOneSegment ==
  \A key \in Keys(cfg) :
    (HasSingle(Parts(key)) /\ ~HasMulti(Parts(key)) /\ NoMultiStored(root)) =>
      LET m == MatchOp(cfg, root, key)
      IN /\ ~m.panic
         /\ m.matches = SetToBag({KeyValue(Join(n, cfg.separator), root[n]) :
                                    n \in Agreeing(root, Parts(key))})

\* What holds instead: the same whenever Match returns.
SinglePatternWhenMatchReturns ==
  \A key \in Keys(cfg) :
    (HasSingle(Parts(key)) /\ ~HasMulti(Parts(key)) /\ NoMultiStored(root)) =>
      LET m == MatchOp(cfg, root, key)
      IN ~m.panic =>
           m.matches = SetToBag({KeyValue(Join(n, cfg.separator), root[n]) :
                                   n \in Agreeing(root, Parts(key))})

\* The same with agreement as equality, whenever Match returns.
SinglePatternEqualWhenMatchReturns ==
  \A key \in Keys(cfg) :
    (HasSingle(Parts(key)) /\ ~HasMulti(Parts(key)) /\ NoMultiStored(root)) =>
      LET m == MatchOp(cfg, root, key)
      IN ~m.panic =>
           m.matches = SetToBag({KeyValue(Join(n, cfg.separator), root[n]) :
                                   n \in AgreeingEqual(root, Parts(key))})

\* The prefix of p with n segments.
Prefix(p, n) == SubSeq(p, 1, n)

\* The node of p with n segments and all the nodes of p after it have, the
\* value at p cleared, neither a value nor a child off the path.
Removable(t, p, n) ==
  \A k \in n..Len(p) :
    /\ k = Len(p) \/ t[Prefix(p, k)] = Nil
    /\ Children(t, Prefix(p, k)) \subseteq (IF k < Len(p) THEN {p[k + 1]} ELSE {})

\* C16: a Delete(key) that returns true removes exactly the nodes of the
\* longest run up key's path from its last node in which every node has no
\* value and no child left when examined: never the root, never a node
\* off the path, none above the first node with a value or another child;
\* the nodes that stay keep their values, the key's node, if it stays,
\* with none.
C16_PruneExactRun ==
  \A key \in DOMAIN entries :
    LET d == DeleteOp(cfg, root, key)
        p == Parts(key)
        run == {Prefix(p, n) : n \in {k \in 1..Len(p) : Removable(root, p, k)}}
    IN /\ d.ok
       /\ DOMAIN d.tree = DOMAIN root \ run
       /\ <<>> \in DOMAIN d.tree
       /\ \A n \in DOMAIN d.tree : d.tree[n] = IF n = p THEN Nil ELSE root[n]

\* A Delete has run, and a key of three segments is held whose Delete
\* removes two nodes and stops at its first node, which holds a value and
\* is left without children.
C16_Witness ==
  /\ lastOp = "Delete"
  /\ \E key \in DOMAIN entries :
       LET d == DeleteOp(cfg, root, key)
           p == Parts(key)
       IN /\ Len(p) = 3
          /\ Cardinality(DOMAIN root \ DOMAIN d.tree) = 2
          /\ root[Prefix(p, 1)] # Nil
          /\ Children(d.tree, Prefix(p, 1)) = {}

\* The node a Key returned for the pattern names: a pattern with a
\* multi-level wildcard gets its Keys from collectAll and from the children
\* named by the token, every other pattern from the steps at its last segment.
NodeIn(parts, key) == IF HasMulti(parts) THEN NodeOf(key) ELSE Parts(key)

\* C17: no Match result holds an entry twice: every KeyValue of the result
\* occurs once, the Keys of the result are pairwise distinct, and no two
\* of them name one node.
C17_MatchReturnsEachOnce ==
  \A key \in Keys(cfg) :
    LET m == MatchOp(cfg, root, key)
        got == BagToSet(m.matches)
    IN ~m.panic =>
         /\ \A kv \in got : CopiesIn(kv, m.matches) = 1
         /\ \A kv1 \in got, kv2 \in got : kv1.Key = kv2.Key => kv1 = kv2
         /\ \A kv1 \in got, kv2 \in got :
              NodeIn(Parts(key), kv1.Key) = NodeIn(Parts(key), kv2.Key) => kv1 = kv2
         /\ \A kv \in got : /\ NodeIn(Parts(key), kv.Key) \in DOMAIN root
                            /\ root[NodeIn(Parts(key), kv.Key)] = kv.Value

\* A Match has run; some pattern returns three entries, one of them through
\* a stored single-level token and one through a stored multi-level token.
C17_Witness ==
  /\ lastOp = "Match"
  /\ \E key \in Keys(cfg) :
       LET m == MatchOp(cfg, root, key)
       IN /\ ~m.panic
          /\ Literal(key)
          /\ BagCardinality(m.matches) = 3
          /\ \E kv \in BagToSet(m.matches) : HasSingle(Parts(kv.Key))
          /\ \E kv \in BagToSet(m.matches) : HasMulti(Parts(kv.Key))

\* C18: every Match ends with its work-list empty, after processing no more
\* frames (its own and those of its subtree collections) than the number
\* of nodes times the number of pattern segments.
C18_WorkListEmpties ==
  \A key \in Keys(cfg) :
    LET m == MatchOp(cfg, root, key)
    IN /\ ~m.panic
       /\ m.frames + m.collected <= Cardinality(DOMAIN root) * Len(Parts(key))

\* What holds instead: every Match ends, by returning or by the panic, after
\* popping at most one frame of its own for each node, the panicking one
\* included, and at most one collecting frame for each node.
MatchLoopsEnd ==
  \A key \in Keys(cfg) :
    LET m == MatchOp(cfg, root, key)
    IN /\ m.frames <= Cardinality(DOMAIN root)
       /\ m.collected <= Cardinality(DOMAIN root)

\* The bound of the claim on the frames of a Match that returns.
FramesBoundWhenMatchReturns ==
  \A key \in Keys(cfg) :
    LET m == MatchOp(cfg, root, key)
    IN ~m.panic =>
         m.frames + m.collected <= Cardinality(DOMAIN root) * Len(Parts(key))

\* The nodes reached through a child edge named by the multi-level token.
MultiNodes(t) ==
  {n \in DOMAIN t : Len(n) > 0 /\ cfg.isMWild /\ n[Len(n)] = cfg.multiWild}

\* C19: with the multi-level token enabled, every node under an edge named
\* by the token holds a value and has no children, and no Match result
\* holds a KeyValue without a value.
C19_MultiNodesAreValuedLeaves ==
  cfg.isMWild =>
    /\ \A n \in MultiNodes(root) : root[n] # Nil /\ Children(root, n) = {}
    /\ \A key \in Keys(cfg) :
         \A kv \in BagToSet(MatchOp(cfg, root, key).matches) : kv.Value # Nil

\* A Match has run on a tree that has been through a rejected Insert (it
\* has a node with neither value nor child) and holds a key P/#; a literal
\* pattern gets that entry from the literal step.
C19_Witness ==
  /\ lastOp = "Match"
  /\ cfg.isMWild
  /\ EmptyNodes(root) # {}
  /\ \E n \in MultiNodes(root) :
       /\ Len(n) = 2
       /\ \E key \in Keys(cfg) :
            /\ Literal(key)
            /\ KeyValue(Join(n, cfg.separator), root[n])
                 \in BagToSet(MatchOp(cfg, root, key).matches)

\* C20: a Retrieve or a Match, whatever it returns, leaves the configuration
\* and the tree (nodes, children, values) as they were.
C20_ReadOnly ==
  [][(lastOp' = "Retrieve" \/ lastOp' = "Match") => (root' = root /\ cfg' = cfg)]_vars

\* A Retrieve or a Match has run on a tree that holds entries, for which
\* some key gets the error from Retrieve, some pattern makes Match panic,
\* and some pattern with a wildcard probes children that do not exist and
\* gets the empty result.
C20_Witness ==
  /\ lastOp \in {"Retrieve", "Match"}
  /\ DOMAIN entries # {}
  /\ \E key \in Keys(cfg) : RetrieveOp(cfg, root, key).err
  /\ \E key \in Keys(cfg) : MatchOp(cfg, root, key).panic
  /\ \E key \in Keys(cfg) :
       /\ HasSingle(Parts(key))
       /\ cfg.singleWild \notin Children(root, <<>>)
       /\ MatchOp(cfg, root, key) = [panic |-> FALSE, matches |-> EmptyBag,
                                     frames |-> 1, collected |-> 0]

====
